---- MODULE Spec2Model ----
(***************************************************************************)
(* GeoJSON Polygon Simplifier (streamlit_app.py).                          *)
(*                                                                         *)
(* The script is modelled as one run over an uploaded document: the heap   *)
(* holds the Python objects (features and their properties dicts) by       *)
(* address, so that sharing between the original and the simplified        *)
(* collection is visible.  Coordinates are integers in units of 1e-5       *)
(* degree, the step of the tolerance slider.                               *)
(***************************************************************************)
EXTENDS Integers, Sequences, FiniteSets, TLC

VARIABLES
    pc,                  \* position of the script run
    tolerance,           \* value of the slider, in units of 1e-5 degree
    uploaded_file,       \* the uploaded JSON document, or NoFile
    heap,                \* address -> Python object
    geojson_obj,         \* address of the parsed top-level object, 0 before parsing
    features,            \* list of feature addresses
    simplified_features, \* list of feature addresses returned by simplify_features
    original_coords,
    simplified_coords,
    reduction_pct,       \* exact rational [num, den] standing for the float
    banner,              \* "none" | "error" | "warning" | "success"
    center,              \* "none" | "set"
    simplified_str,      \* the download payload, or NoDownload
    cc_geometry,         \* argument of a direct count_coordinates call
    cc_result            \* its result, or NoResult

vars == << pc, tolerance, uploaded_file, heap, geojson_obj, features,
           simplified_features, original_coords, simplified_coords,
           reduction_pct, banner, center, simplified_str,
           cc_geometry, cc_result >>

flowVars == << pc, tolerance, uploaded_file, heap, geojson_obj, features,
               simplified_features, original_coords, simplified_coords,
               reduction_pct, banner, center, simplified_str >>

----------------------------------------------------------------------------
(* Bounds of the model *)

MaxFeatures == 2      \* longest FeatureCollection uploaded
MaxRingLen == 5       \* longest ring in a direct count_coordinates call
MaxRings == 2         \* most rings per polygon in a direct call
MaxPolygons == 2      \* most polygons per MultiPolygon in a direct call

(* Slider of lines 36-44, in units of its step 0.00001 *)
SliderMin == 1
SliderMax == 10
SliderDefault == 3
SliderValues == {SliderMin, SliderDefault, SliderMax}

(* Thresholds of lines 80-82 *)
WarnAbove == 85
GoodFrom == 50
GoodTo == 80

----------------------------------------------------------------------------
(* Values *)

NoFile == [json |-> "nofile"]
NoId == "<absent>"
NoDownload == [mime |-> "none"]
NoResult == [returned |-> FALSE]
Result(n) == [returned |-> TRUE, value |-> n]
JNull == [json |-> "null"]
JObject(items) == [json |-> "object", items |-> items]
NoPct == [num |-> 0, den |-> 0]
ZeroPct == [num |-> 0, den |-> 1]

PolygonTypes == {"Polygon", "MultiPolygon"}

Geom(t, c) == [type |-> t, coordinates |-> c]

(* A square with one more vertex, 2 units off its bottom edge *)
RingA == << <<0,0>>, <<20,2>>, <<40,0>>, <<40,40>>, <<0,40>>, <<0,0>> >>
(* A hole with one more vertex, 1 unit off its top edge *)
HoleA == << <<5,5>>, <<5,35>>, <<20,36>>, <<35,35>>, <<35,5>>, <<5,5>> >>
(* A triangle: already minimal (4 coordinates) *)
RingT == << <<100,0>>, <<103,0>>, <<100,3>>, <<100,0>> >>
(* A ring whose last position does not repeat the first *)
RingOpen == << <<0,0>>, <<50,0>>, <<50,50>>, <<0,50>> >>

GeometryCatalog ==
    { Geom("Point", <<5,5>>),
      Geom("LineString", << <<0,0>>, <<10,1>>, <<20,0>> >>),
      Geom("Polygon", << >>),
      Geom("Polygon", << RingA, HoleA >>),
      Geom("MultiPolygon", << << RingA >>, << RingT >> >>),
      Geom("Polygon", << RingOpen >>) }

(* properties member and id member of an uploaded feature *)
MemberCatalog ==
    { << JNull, NoId >>, << JObject({}), "abc" >>,
      << JObject({<<"plot_id", "P1">>}), "abc" >> }

RawFeature(g, p, i) ==
    [type |-> "Feature", geometry |-> g, properties |-> p, id |-> i]

RawFeatures ==
    { RawFeature(g, m[1], m[2]) : g \in GeometryCatalog, m \in MemberCatalog }

RECURSIVE SeqsUpTo(_, _)
SeqsUpTo(S, n) ==
    IF n = 0 THEN { << >> }
    ELSE LET shorter == SeqsUpTo(S, n - 1)
         IN  shorter \cup { Append(s, x) : s \in { t \in shorter : Len(t) = n - 1 },
                                           x \in S }

RawCollections ==
    { [type |-> "FeatureCollection", features |-> fs] :
          fs \in SeqsUpTo(RawFeatures, MaxFeatures) }

(* Documents whose top-level type is neither Feature nor FeatureCollection *)
RawOthers == GeometryCatalog \cup { [type |-> "Topology"] }

Documents == RawCollections \cup RawFeatures \cup RawOthers

----------------------------------------------------------------------------
(* geojson.loads: every Feature becomes an object of its own with a dict   *)
(* of its own; Feature.__init__ stores `properties or {}`, so a null       *)
(* properties member is an empty dict after loading.                       *)

Dict(items) == [kind |-> "dict", items |-> items]

FeatureObj(g, p, i) ==
    [kind |-> "Feature", geometry |-> g, properties |-> p, id |-> i]

LoadedItems(p) == IF p = JNull THEN {} ELSE p.items

LoadFeatures(fs) ==
    [a \in 1..(2 * Len(fs)) |->
        IF a % 2 = 1
        THEN LET f == fs[(a + 1) \div 2]
             IN  FeatureObj(f.geometry, a + 1, f.id)
        ELSE Dict(LoadedItems(fs[a \div 2].properties))]

(* The heap after geojson.loads(data) and the address of the top object *)
Loads(doc) ==
    IF doc.type = "FeatureCollection"
    THEN LET n == Len(doc.features)
         IN  [heap |-> LoadFeatures(doc.features) @@
                       ((2 * n + 1) :>
                           [kind |-> "FeatureCollection",
                            features |-> [i \in 1..n |-> 2 * i - 1]]),
              top |-> 2 * n + 1]
    ELSE IF doc.type = "Feature"
    THEN [heap |-> LoadFeatures(<< doc >>), top |-> 1]
    ELSE [heap |-> (1 :> [kind |-> doc.type]), top |-> 1]

----------------------------------------------------------------------------
(* shapely: shape, simplify(tolerance, preserve_topology=True), mapping    *)

(* shapely.geometry.shape builds every ring with shapely.linearrings,      *)
(* which appends the first coordinate when the ring is not closed or has   *)
(* only 3 coordinates.                                                     *)
ShapeRing(r) ==
    IF Len(r) # 3 /\ r[1] = r[Len(r)] THEN r ELSE Append(r, r[1])

ShapePolygon(rings) == [k \in 1..Len(rings) |-> ShapeRing(rings[k])]

Sq(n) == n * n
DistSq(p, q) == Sq(p[1] - q[1]) + Sq(p[2] - q[2])
Dot(p, a, b) == (p[1] - a[1]) * (b[1] - a[1]) + (p[2] - a[2]) * (b[2] - a[2])
Cross(p, a, b) == (b[1] - a[1]) * (p[2] - a[2]) - (b[2] - a[2]) * (p[1] - a[1])

(* p lies within distance tol of the segment a-b *)
WithinTol(p, a, b, tol) ==
    IF a = b \/ Dot(p, a, b) <= 0 THEN DistSq(p, a) <= Sq(tol)
    ELSE IF Dot(p, a, b) >= DistSq(a, b) THEN DistSq(p, b) <= Sq(tol)
    ELSE Sq(Cross(p, a, b)) <= Sq(tol) * DistSq(a, b)

RECURSIVE SubSeqAt(_, _, _)
(* the coordinates of r at the indices of K, in order, from index i on *)
SubSeqAt(r, K, i) ==
    IF i > Len(r) THEN << >>
    ELSE IF i \in K THEN << r[i] >> \o SubSeqAt(r, K, i + 1)
    ELSE SubSeqAt(r, K, i + 1)

(* Index sets a topology-preserving Douglas-Peucker pass may keep: both    *)
(* ends, at least 4 coordinates of a ring, and every dropped vertex within *)
(* the tolerance of the segment joining the kept vertices around it.       *)
KeptSets(r, tol) ==
    { K \in SUBSET (1..Len(r)) :
        /\ 1 \in K /\ Len(r) \in K
        /\ Cardinality(K) >= 4
        /\ \A k \in (1..Len(r)) \ K :
              LET lo == CHOOSE i \in K : i < k /\ \A j \in K : j < k => j <= i
                  hi == CHOOSE i \in K : i > k /\ \A j \in K : j > k => j >= i
              IN  WithinTol(r[k], r[lo], r[hi], tol) }

SimplifyRing(r, tol) == { SubSeqAt(r, K, 1) : K \in KeptSets(r, tol) }

RECURSIVE SimplifyRings(_, _)
(* every way of simplifying each ring of a polygon independently *)
SimplifyRings(rings, tol) ==
    IF rings = << >> THEN { << >> }
    ELSE { << h >> \o t : h \in SimplifyRing(Head(rings), tol),
                          t \in SimplifyRings(Tail(rings), tol) }

RECURSIVE SimplifyPolygons(_, _)
SimplifyPolygons(polys, tol) ==
    IF polys = << >> THEN { << >> }
    ELSE { << h >> \o t : h \in SimplifyRings(ShapePolygon(Head(polys)), tol),
                          t \in SimplifyPolygons(Tail(polys), tol) }

(* mapping(shape(g).simplify(tol, preserve_topology=True)) for a Polygon   *)
(* or MultiPolygon g: the geometries the library may return.               *)
SimplifiedGeometries(g, tol) ==
    IF g.type = "Polygon"
    THEN { Geom("Polygon", c) : c \in SimplifyRings(ShapePolygon(g.coordinates), tol) }
    ELSE { Geom("MultiPolygon", c) : c \in SimplifyPolygons(g.coordinates, tol) }

----------------------------------------------------------------------------
(* Variant: the properties argument is not passed on *)
GeoJSONFeatureNoProps(geometry, p, h) ==
    LET a == Len(h) + 1
    IN  [addr |-> a,
         heap |-> h \o << FeatureObj(geometry, a + 1, NoId), Dict({}) >>]

(* geojson.Feature(geometry=..., properties=p): a new Feature object with  *)
(* no id member; its properties member is `p or {}`, the dict p itself     *)
(* unless p is empty, in which case a new empty dict.                      *)
GeoJSONFeature(geometry, p, h) ==
    LET a == Len(h) + 1
    IN  IF h[p].items # {}
        THEN [addr |-> a, heap |-> Append(h, FeatureObj(geometry, p, NoId))]
        ELSE [addr |-> a,
              heap |-> h \o << FeatureObj(geometry, a + 1, NoId), Dict({}) >>]

RECURSIVE SimplifyLoopDropping(_, _, _, _, _)
(* Variant: the else branch appends nothing *)
SimplifyLoopDropping(fs, tol, i, simplified, h) ==
    IF i > Len(fs) THEN { [ret |-> simplified, heap |-> h] }
    ELSE LET feature == h[fs[i]]
         IN  IF feature.geometry.type \in PolygonTypes
             THEN UNION { LET new_feature ==
                                  GeoJSONFeature(g, feature.properties, h)
                          IN  SimplifyLoopDropping(fs, tol, i + 1,
                                           Append(simplified, new_feature.addr),
                                           new_feature.heap) :
                          g \in SimplifiedGeometries(feature.geometry, tol) }
             ELSE SimplifyLoopDropping(fs, tol, i + 1, simplified, h)

RECURSIVE SimplifyLoopRebuildAll(_, _, _, _, _)
(* Variant: the else branch builds a new Feature as well *)
SimplifyLoopRebuildAll(fs, tol, i, simplified, h) ==
    IF i > Len(fs) THEN { [ret |-> simplified, heap |-> h] }
    ELSE LET feature == h[fs[i]]
             geoms == IF feature.geometry.type \in PolygonTypes
                      THEN SimplifiedGeometries(feature.geometry, tol)
                      ELSE { feature.geometry }
         IN  UNION { LET new_feature ==
                             GeoJSONFeature(g, feature.properties, h)
                     IN  SimplifyLoopRebuildAll(fs, tol, i + 1,
                                      Append(simplified, new_feature.addr),
                                      new_feature.heap) :
                     g \in geoms }

RECURSIVE SimplifyLoopInPlace(_, _, _, _, _)
(* Variant: the simplified geometry is stored into the input feature *)
SimplifyLoopInPlace(fs, tol, i, simplified, h) ==
    IF i > Len(fs) THEN { [ret |-> simplified, heap |-> h] }
    ELSE LET feature == h[fs[i]]
         IN  IF feature.geometry.type \in PolygonTypes
             THEN UNION { SimplifyLoopInPlace(fs, tol, i + 1,
                              Append(simplified, fs[i]),
                              [h EXCEPT ![fs[i]].geometry = g]) :
                          g \in SimplifiedGeometries(feature.geometry, tol) }
             ELSE SimplifyLoopInPlace(fs, tol, i + 1, Append(simplified, fs[i]), h)

RECURSIVE SimplifyLoop(_, _, _, _, _)
(* the for loop of simplify_features from index i on: every list it may    *)
(* return, with the heap as it is then                                     *)
SimplifyLoop(fs, tol, i, simplified, h) ==
    IF i > Len(fs) THEN { [ret |-> simplified, heap |-> h] }
    ELSE LET feature == h[fs[i]]
         IN  IF feature.geometry.type \in PolygonTypes
             THEN UNION { LET new_feature ==
                                  GeoJSONFeature(g, feature.properties, h)
                          IN  SimplifyLoop(fs, tol, i + 1,
                                           Append(simplified, new_feature.addr),
                                           new_feature.heap) :
                          g \in SimplifiedGeometries(feature.geometry, tol) }
             ELSE SimplifyLoop(fs, tol, i + 1, Append(simplified, fs[i]), h)

simplify_features(fs, tol, h) == SimplifyLoop(fs, tol, 1, << >>, h)

RECURSIVE SumLen(_)
(* sum(len(ring) for ring in rings) *)
SumLen(rings) ==
    IF rings = << >> THEN 0 ELSE Len(Head(rings)) + SumLen(Tail(rings))

RECURSIVE SumPolygons(_)
(* sum(sum(len(ring) for ring in polygon) for polygon in polygons) *)
SumPolygons(polygons) ==
    IF polygons = << >> THEN 0
    ELSE SumLen(Head(polygons)) + SumPolygons(Tail(polygons))

(* Variant: a MultiPolygon is counted by the lengths of its polygons *)
count_coordinates_flat(geometry) ==
    IF geometry.type = "Polygon" THEN SumLen(geometry.coordinates)
    ELSE IF geometry.type = "MultiPolygon" THEN SumLen(geometry.coordinates)
    ELSE 0

count_coordinates(geometry) ==
    IF geometry.type = "Polygon" THEN SumLen(geometry.coordinates)
    ELSE IF geometry.type = "MultiPolygon" THEN SumPolygons(geometry.coordinates)
    ELSE 0

RECURSIVE TotalCoords(_, _)
(* sum(count_coordinates(f['geometry']) for f in fs                        *)
(*     if f['geometry']['type'] in ['Polygon', 'MultiPolygon'])            *)
TotalCoords(fs, h) ==
    IF fs = << >> THEN 0
    ELSE LET g == h[Head(fs)].geometry
         IN  (IF g.type \in PolygonTypes THEN count_coordinates(g) ELSE 0)
             + TotalCoords(Tail(fs), h)

(* a / b * 100 of Python floats, kept as the exact fraction; a zero        *)
(* divisor raises ZeroDivisionError                                        *)
Percent(a, b) ==
    IF b = 0 THEN [raised |-> "ZeroDivisionError"]
    ELSE [num |-> a * 100, den |-> b]

(* Variant: no guard on the divisor *)
ReductionPctUnguarded(orig, simp) == Percent(orig - simp, orig)

(* Variant: the operands of the difference swapped *)
ReductionPctSwapped(orig, simp) ==
    IF orig > 0 THEN Percent(simp - orig, orig) ELSE ZeroPct

ReductionPct(orig, simp) ==
    IF orig > 0 THEN Percent(orig - simp, orig) ELSE ZeroPct

(* the banner of lines 80-83 *)
Band(pct) ==
    IF pct.num > WarnAbove * pct.den THEN "warning"
    ELSE IF pct.num >= GoodFrom * pct.den /\ pct.num <= GoodTo * pct.den
         THEN "success"
    ELSE "none"

(* geojson.dumps of a feature list: the value of every feature, with the   *)
(* id member only where the object has one                                 *)
FeatureValue(a, h) ==
    [type |-> "Feature", geometry |-> h[a].geometry,
     properties |-> h[h[a].properties].items, id |-> h[a].id]

Dumps(fs, h) == [i \in 1..Len(fs) |-> FeatureValue(fs[i], h)]

----------------------------------------------------------------------------
(* Inputs of direct count_coordinates calls *)

RingOfLen(n) == [k \in 1..n |-> << k, 0 >>]
CountRings == { RingOfLen(n) : n \in {0, MaxRingLen - 1, MaxRingLen} }
CountPolygons == SeqsUpTo(CountRings, MaxRings)
CountGeometries ==
    { Geom("Polygon", c) : c \in CountPolygons }
    \cup { Geom("MultiPolygon", c) : c \in SeqsUpTo(CountPolygons, MaxPolygons) }
    \cup { Geom("LineString", r) : r \in CountRings }
    \cup { Geom("MultiPoint", r) : r \in CountRings }
    \cup { Geom("Point", << 5, 5 >>) }

----------------------------------------------------------------------------
(* The script *)

Init ==
    /\ pc = "idle"
    /\ tolerance = SliderDefault
    /\ uploaded_file = NoFile
    /\ heap = << >>
    /\ geojson_obj = 0
    /\ features = << >>
    /\ simplified_features = << >>
    /\ original_coords = 0
    /\ simplified_coords = 0
    /\ reduction_pct = NoPct
    /\ banner = "none"
    /\ center = "none"
    /\ simplified_str = NoDownload
    /\ cc_geometry = Geom("Point", << 5, 5 >>)
    /\ cc_result = NoResult

(* lines 36-44: the user moves the slider *)
SetTolerance(t) ==
    /\ pc = "idle"
    /\ tolerance' = t
    /\ UNCHANGED << pc, uploaded_file, heap, geojson_obj, features,
                    simplified_features, original_coords, simplified_coords,
                    reduction_pct, banner, center, simplified_str,
                    cc_geometry, cc_result >>

(* lines 46-50: a file is uploaded, read and parsed *)
Upload ==
    /\ pc = "idle"
    /\ \E doc \in Documents :
          /\ uploaded_file' = doc
          /\ heap' = Loads(doc).heap
          /\ geojson_obj' = Loads(doc).top
    /\ pc' = "parsed"
    /\ UNCHANGED << tolerance, features, simplified_features, original_coords,
                    simplified_coords, reduction_pct, banner, center,
                    simplified_str, cc_geometry, cc_result >>

(* Variant: st.error without st.stop *)
ExtractNoStop ==
    /\ pc = "parsed"
    /\ IF heap[geojson_obj].kind = "FeatureCollection"
       THEN /\ features' = heap[geojson_obj].features
            /\ UNCHANGED banner
       ELSE IF heap[geojson_obj].kind = "Feature"
       THEN /\ features' = << geojson_obj >>
            /\ UNCHANGED banner
       ELSE /\ banner' = "error"
            /\ UNCHANGED features
    /\ pc' = "extracted"
    /\ UNCHANGED << tolerance, uploaded_file, heap, geojson_obj,
                    simplified_features, original_coords, simplified_coords,
                    reduction_pct, center, simplified_str, cc_geometry, cc_result >>

(* lines 53-59: the feature list, or st.error and st.stop *)
Extract ==
    /\ pc = "parsed"
    /\ IF heap[geojson_obj].kind = "FeatureCollection"
       THEN /\ features' = heap[geojson_obj].features
            /\ pc' = "extracted"
            /\ UNCHANGED banner
       ELSE IF heap[geojson_obj].kind = "Feature"
       THEN /\ features' = << geojson_obj >>
            /\ pc' = "extracted"
            /\ UNCHANGED banner
       ELSE /\ banner' = "error"
            /\ pc' = "stopped"
            /\ UNCHANGED features
    /\ UNCHANGED << tolerance, uploaded_file, heap, geojson_obj,
                    simplified_features, original_coords, simplified_coords,
                    reduction_pct, center, simplified_str, cc_geometry, cc_result >>

(* lines 62-64: simplify_features; the two FeatureCollection wrappers hold *)
(* the lists features and simplified_features themselves                   *)
Simplify ==
    /\ pc = "extracted"
    /\ \E out \in simplify_features(features, tolerance, heap) :
          /\ simplified_features' = out.ret
          /\ heap' = out.heap
    /\ pc' = "simplified"
    /\ UNCHANGED << tolerance, uploaded_file, geojson_obj, features,
                    original_coords, simplified_coords, reduction_pct, banner,
                    center, simplified_str, cc_geometry, cc_result >>

(* lines 67-71: the statistics *)
Stats ==
    /\ pc = "simplified"
    /\ LET orig == TotalCoords(features, heap)
           simp == TotalCoords(simplified_features, heap)
           pct == ReductionPct(orig, simp)
       IN  /\ original_coords' = orig
           /\ simplified_coords' = simp
           /\ IF "raised" \in DOMAIN pct
              THEN pc' = "crashed" /\ UNCHANGED reduction_pct
              ELSE pc' = "stats" /\ reduction_pct' = pct
    /\ UNCHANGED << tolerance, uploaded_file, heap, geojson_obj, features,
                    simplified_features, banner, center, simplified_str,
                    cc_geometry, cc_result >>

(* lines 73-83: the metrics and the banner *)
Report ==
    /\ pc = "stats"
    /\ banner' = Band(reduction_pct)
    /\ pc' = "reported"
    /\ UNCHANGED << tolerance, uploaded_file, heap, geojson_obj, features,
                    simplified_features, original_coords, simplified_coords,
                    reduction_pct, center, simplified_str, cc_geometry, cc_result >>

(* lines 86-122: the centre of the maps is taken from features[0], which   *)
(* raises IndexError on an empty list; then the two maps                   *)
Maps ==
    /\ pc = "reported"
    /\ IF features = << >>
       THEN pc' = "crashed" /\ UNCHANGED center
       ELSE pc' = "mapped" /\ center' = "set"
    /\ UNCHANGED << tolerance, uploaded_file, heap, geojson_obj, features,
                    simplified_features, original_coords, simplified_coords,
                    reduction_pct, banner, simplified_str, cc_geometry, cc_result >>

(* lines 125-132: the download button *)
Download ==
    /\ pc = "mapped"
    /\ simplified_str' = [mime |-> "application/json",
                          file_name |-> "simplified.geojson",
                          data |-> Dumps(simplified_features, heap)]
    /\ pc' = "done"
    /\ UNCHANGED << tolerance, uploaded_file, heap, geojson_obj, features,
                    simplified_features, original_coords, simplified_coords,
                    reduction_pct, banner, center, cc_geometry, cc_result >>

Next ==
    \/ \E t \in SliderValues : SetTolerance(t)
    \/ Upload
    \/ Extract
    \/ Simplify
    \/ Stats
    \/ Report
    \/ Maps
    \/ Download

Spec == Init /\ [][Next]_vars

----------------------------------------------------------------------------
(* Direct calls of count_coordinates on any geometry *)

CountInit ==
    /\ pc = "idle"
    /\ tolerance = SliderDefault
    /\ uploaded_file = NoFile
    /\ heap = << >>
    /\ geojson_obj = 0
    /\ features = << >>
    /\ simplified_features = << >>
    /\ original_coords = 0
    /\ simplified_coords = 0
    /\ reduction_pct = NoPct
    /\ banner = "none"
    /\ center = "none"
    /\ simplified_str = NoDownload
    /\ cc_geometry \in CountGeometries
    /\ cc_result = NoResult

CountCall ==
    /\ cc_result = NoResult
    /\ cc_result' = Result(count_coordinates(cc_geometry))
    /\ UNCHANGED cc_geometry
    /\ UNCHANGED flowVars

CountNext == CountCall

CountSpec == CountInit /\ [][CountNext]_vars

----------------------------------------------------------------------------
(* Vocabulary of the properties below *)

SimplifyReturned == pc \in {"simplified", "stats", "reported", "mapped", "done", "crashed"}
StatsDone == pc \in {"stats", "reported", "mapped", "done"}
Extracted == pc \notin {"idle", "parsed", "stopped"}

TypeAt(a) == heap[a].geometry.type
PropsAt(a) == heap[heap[a].properties].items
IsPolygonal(a) == TypeAt(a) \in PolygonTypes

(* the positions of a ring, of a polygon, of a multipolygon *)
RingPoints(r) == { r[k] : k \in 1..Len(r) }
PolygonPoints(rings) == UNION { RingPoints(rings[k]) : k \in 1..Len(rings) }
GeometryPoints(g) ==
    IF g.type = "Polygon" THEN PolygonPoints(g.coordinates)
    ELSE UNION { PolygonPoints(g.coordinates[k]) : k \in 1..Len(g.coordinates) }

(* the slots of a polygon: one per ring index and position index *)
PolygonSlots(rings) ==
    UNION { { << r, k >> : k \in 1..Len(rings[r]) } : r \in 1..Len(rings) }
MultiPolygonSlots(polys) ==
    UNION { { << q, s[1], s[2] >> : s \in PolygonSlots(polys[q]) } :
            q \in 1..Len(polys) }
SlotCount(g) ==
    IF g.type = "Polygon" THEN Cardinality(PolygonSlots(g.coordinates))
    ELSE IF g.type = "MultiPolygon" THEN Cardinality(MultiPolygonSlots(g.coordinates))
    ELSE 0

(* what the uploaded document says, feature by feature *)
RawValue(f) ==
    [type |-> "Feature", geometry |-> f.geometry,
     properties |-> IF f.properties = JNull THEN {} ELSE f.properties.items,
     id |-> f.id]
RawList(doc) ==
    IF doc.type = "FeatureCollection"
    THEN [i \in 1..Len(doc.features) |-> RawValue(doc.features[i])]
    ELSE << RawValue(doc) >>

(* every ring of every polygonal input feature is a closed ring of at      *)
(* least 4 positions                                                       *)
ClosedRing(r) == Len(r) >= 4 /\ r[1] = r[Len(r)]
ClosedRings(g) ==
    IF g.type = "Polygon"
    THEN \A k \in 1..Len(g.coordinates) : ClosedRing(g.coordinates[k])
    ELSE \A q \in 1..Len(g.coordinates) :
            \A k \in 1..Len(g.coordinates[q]) : ClosedRing(g.coordinates[q][k])
InputRingsClosed ==
    \A i \in 1..Len(features) :
        IsPolygonal(features[i]) => ClosedRings(heap[features[i]].geometry)

----------------------------------------------------------------------------
(* C1: simplify_features returns exactly len(F) features, and the feature  *)
(* at index i is the one derived from input i: the input itself when it is *)
(* not polygonal, else a feature of the same geometry type whose positions *)
(* all come from input i once its rings are closed.                        *)
C1_CardinalityAndOrder ==
    SimplifyReturned =>
        /\ Len(simplified_features) = Len(features)
        /\ \A i \in 1..Len(features) :
              LET in == features[i]
                  out == simplified_features[i]
              IN  /\ TypeAt(out) = TypeAt(in)
                  /\ ~IsPolygonal(in) => out = in
                  /\ IsPolygonal(in) =>
                        GeometryPoints(heap[out].geometry)
                            \subseteq GeometryPoints(heap[in].geometry)

C1_Witness ==
    /\ pc = "simplified"
    /\ Len(features) = 2
    /\ TypeAt(features[1]) = "Point"
    /\ TypeAt(features[2]) = "MultiPolygon"
    /\ simplified_features[2] # features[2]

(* C2: the properties of output i equal the properties of input i, on both *)
(* branches.                                                               *)
C2_PropertiesEqual ==
    SimplifyReturned =>
        \A i \in 1..Len(features) :
            i \in DOMAIN simplified_features
            /\ PropsAt(simplified_features[i]) = PropsAt(features[i])

C2_Witness ==
    /\ pc = "simplified"
    /\ Len(features) = 2
    /\ IsPolygonal(features[1]) /\ PropsAt(features[1]) # {}
    /\ ~IsPolygonal(features[2]) /\ PropsAt(features[2]) # {}

(* C3: a feature that is not a Polygon or MultiPolygon comes back at its   *)
(* index equal in geometry, properties and identifier, at every tolerance. *)
C3_Passthrough ==
    SimplifyReturned =>
        \A i \in 1..Len(features) :
            ~IsPolygonal(features[i]) =>
                /\ i \in DOMAIN simplified_features
                /\ FeatureValue(simplified_features[i], heap)
                       = RawList(uploaded_file)[i]

C3_Witness ==
    /\ pc = "simplified"
    /\ tolerance = SliderMax
    /\ \E i \in 1..Len(features) :
          /\ TypeAt(features[i]) = "LineString"
          /\ heap[features[i]].id = "abc"
          /\ PropsAt(features[i]) # {}

(* C4: count_coordinates is the number of positions over all rings of a    *)
(* Polygon, over all rings of all polygons of a MultiPolygon, and 0 for    *)
(* any other type; it is never negative and is 0 for an empty sequence.    *)
C4_CountCoordinates ==
    cc_result.returned =>
        /\ cc_result.value = SlotCount(cc_geometry)
        /\ cc_result.value >= 0
        /\ cc_geometry.type \notin PolygonTypes => cc_result.value = 0
        /\ cc_geometry.coordinates = << >> => cc_result.value = 0

C4_Witness ==
    /\ cc_geometry.type = "MultiPolygon"
    /\ Len(cc_geometry.coordinates) = 2
    /\ Len(cc_geometry.coordinates[1]) = 2
    /\ cc_result = Result(3 * MaxRingLen - 1)

(* C5: the reduction percentage is (original - simplified) / original *    *)
(* 100 of the two totals when the original total is positive, and 0 when   *)
(* it is 0; the zero case divides nothing and does not fail.               *)
RECURSIVE SlotTotal(_)
SlotTotal(fs) ==
    IF fs = << >> THEN 0
    ELSE SlotCount(heap[Head(fs)].geometry) + SlotTotal(Tail(fs))

C5_ReductionPct ==
    /\ StatsDone =>
          /\ original_coords = SlotTotal(features)
          /\ simplified_coords = SlotTotal(simplified_features)
          /\ original_coords > 0 =>
                /\ reduction_pct.den > 0
                /\ reduction_pct.num * original_coords
                       = (original_coords - simplified_coords) * 100
                             * reduction_pct.den
          /\ original_coords = 0 => reduction_pct = ZeroPct
    /\ pc = "crashed" => reduction_pct # NoPct

C5_Witness ==
    /\ pc = "stats"
    /\ Len(features) = 2
    /\ \A i \in 1..2 : heap[features[i]].geometry = Geom("Polygon", << >>)
    /\ original_coords = 0
    /\ reduction_pct = ZeroPct

(* C6 as stated: whenever the original total is positive, the simplified   *)
(* total is between 0 and the original total, so that                      *)
(* 0 <= reduction_pct <= 100.                                              *)
C6_ReductionBound ==
    (StatsDone /\ original_coords > 0) =>
        /\ 0 <= simplified_coords /\ simplified_coords <= original_coords
        /\ 0 <= reduction_pct.num
        /\ reduction_pct.num <= 100 * reduction_pct.den

(* C6 amended: the bound holds whenever the original total is positive and *)
(* every ring of every polygonal input feature is closed (first position   *)
(* equal to last, at least 4 positions).                                   *)
C6_ReductionBoundClosedRings ==
    (StatsDone /\ original_coords > 0 /\ InputRingsClosed) =>
        /\ 0 <= simplified_coords /\ simplified_coords <= original_coords
        /\ 0 <= reduction_pct.num
        /\ reduction_pct.num <= 100 * reduction_pct.den

C6_Witness ==
    /\ pc = "stats"
    /\ InputRingsClosed
    /\ 0 < simplified_coords /\ simplified_coords < original_coords
    /\ 0 < reduction_pct.num

(* C7: simplification and statistics leave the input as it was loaded: the *)
(* list and every feature of it (geometry, properties, identifier) still   *)
(* say what the uploaded document says.                                    *)
C7_InputNotMutated ==
    Extracted => Dumps(features, heap) = RawList(uploaded_file)

C7_Witness ==
    /\ pc = "stats"
    /\ \E i \in 1..Len(features) :
          /\ IsPolygonal(features[i])
          /\ heap[simplified_features[i]].geometry # heap[features[i]].geometry
          /\ heap[features[i]].geometry = RawList(uploaded_file)[i].geometry

(* C8: a document whose top-level type is neither FeatureCollection nor    *)
(* Feature ends in the error report and nothing runs after it: no          *)
(* simplification, no statistics, no download.  A Feature document gives   *)
(* the one-element list of the document itself, a FeatureCollection its    *)
(* features in order.                                                      *)
C8_TypeDispatch ==
    /\ (pc \notin {"idle", "parsed"}
            /\ uploaded_file.type \notin {"FeatureCollection", "Feature"}) =>
          /\ pc = "stopped"
          /\ banner = "error"
          /\ ~ENABLED Next
          /\ features = << >> /\ simplified_features = << >>
          /\ heap = Loads(uploaded_file).heap
          /\ reduction_pct = NoPct
          /\ simplified_str = NoDownload
    /\ (Extracted /\ uploaded_file.type = "Feature") =>
          /\ features = << geojson_obj >>
          /\ FeatureValue(geojson_obj, heap) = RawValue(uploaded_file)
    /\ (Extracted /\ uploaded_file.type = "FeatureCollection") =>
          /\ Len(features) = Len(uploaded_file.features)
          /\ \A i \in 1..Len(features) :
                FeatureValue(features[i], heap)
                    = RawValue(uploaded_file.features[i])

C8_Witness ==
    /\ pc = "stopped"
    /\ uploaded_file.type = "Polygon"
    /\ banner = "error"

(* C9 as stated: a Polygon or MultiPolygon feature comes back differing    *)
(* only in its geometry: its identifier and its properties are those of    *)
(* the input.                                                              *)
C9_OnlyGeometryDiffers ==
    SimplifyReturned =>
        \A i \in 1..Len(features) :
            IsPolygonal(features[i]) =>
                /\ heap[simplified_features[i]].id = heap[features[i]].id
                /\ PropsAt(simplified_features[i]) = PropsAt(features[i])

(* C10 as stated: everything simplify_features returns is a fresh copy: no *)
(* output feature is an input feature object, and none shares its          *)
(* properties mapping with its input.                                      *)
C10_FreshCopies ==
    SimplifyReturned =>
        \A i \in 1..Len(features) :
            /\ simplified_features[i] # features[i]
            /\ heap[simplified_features[i]].properties
                   # heap[features[i]].properties

====
